---- MODULE Spec2Model ----
(***************************************************************************)
(* Model of midnight::detail::VertexBufferImpl                             *)
(* (Source/Implementation/core/VertexBuffer.inl): a manager that owns one  *)
(* GPU buffer object and an ordered list of vertex-attribute descriptors,  *)
(* running against the ambient state of a GL context (allocated buffer     *)
(* names, GL_ARRAY_BUFFER binding, current program, enabled attribute      *)
(* arrays).  The code is single-threaded: one call is in progress at a     *)
(* time, its position is held in `frame`.                                  *)
(***************************************************************************)
EXTENDS Integers, Sequences, FiniteSets, TLC

(* ------------------------------------------------------------------ *)
(* Bounds of the model                                                 *)
(* ------------------------------------------------------------------ *)
NumHandles == 3
MaxAttrs == 2

(* ------------------------------------------------------------------ *)
(* GL enumerants used by the code                                      *)
(* ------------------------------------------------------------------ *)
GL_BYTE == 5120
GL_UNSIGNED_BYTE == 5121
GL_SHORT == 5122
GL_UNSIGNED_SHORT == 5123
GL_INT == 5124
GL_UNSIGNED_INT == 5125
GL_FLOAT == 5126
GL_DOUBLE == 5130
GL_HALF_FLOAT == 5131
GL_FIXED == 5132
GL_BGRA == 32993
GL_UNSIGNED_INT_2_10_10_10_REV == 33640
GL_INT_2_10_10_10_REV == 36255
GL_UNSIGNED_INT_10F_11F_11F_REV == 35899
GL_MAX_VERTEX_ATTRIBS == 34921
GL_POINTS == 0
GL_LINES == 1
GL_TRIANGLES == 4
GL_QUADS == 7

(* ------------------------------------------------------------------ *)
(* Universe                                                            *)
(* ------------------------------------------------------------------ *)
\* the manager objects a run may create
Managers == {1, 2}

\* buffer names glGenBuffers can hand out; 0 is never a buffer
Handles == 1 .. NumHandles

\* buffers created by unrelated code before any manager exists
ForeignBuffers == {1}

\* vertex sequences handed to the constructors and to setVertexData
DataInputs == { <<1, 2, 3>>, <<4, 5, 6, 7, 8, 9>> }

\* shader programs of the context; 0 is "no program"
Programs == {1, 2}

\* attribute names the callers register
Names == {"pos", "col"}

\* glGetAttribLocation: program 1 has both attributes active, program 2
\* only "pos"; -1 is "no such active attribute"
glGetAttribLocation(prog, name) ==
    CASE prog = 1 /\ name = "pos" -> 0
      [] prog = 1 /\ name = "col" -> 1
      [] prog = 2 /\ name = "pos" -> 1
      [] OTHER -> -1

VARIABLES
    life,        \* per manager: "none" | "ctor" | "live"
    handle,      \* per manager: GLuint handle
    data,        \* per manager: std::vector<T> data
    attributes,  \* per manager: the descriptor list
    polyType,    \* per manager: the PolyType the class was instantiated with
    allocated,   \* GL context: buffer names in use
    gpuData,     \* GL context: data store of each buffer name
    bound,       \* GL context: GL_ARRAY_BUFFER_BINDING
    program,     \* GL context: GL_CURRENT_PROGRAM
    enabled,     \* GL context: enabled vertex attribute arrays
    bindValid,   \* per manager: bind() succeeded, program and list unchanged since
    sinceReset,  \* per manager: "reset" from resetAttributes to the next registration
    lastBind,    \* per manager: the slots its last successful bind() enabled
    leaked,      \* buffer names generated by a constructor that then threw
    frame        \* the call in progress

vars == <<life, handle, data, attributes, polyType, allocated, gpuData, bound,
          program, enabled, bindValid, sinceReset, lastBind, leaked, frame>>

mgrVars == <<life, handle, data, attributes, polyType>>
bufVars == <<allocated, gpuData, bound, leaked>>
attrVars == <<program, enabled, bindValid, sinceReset, lastBind>>

(* ------------------------------------------------------------------ *)
(* The call frame                                                      *)
(* ------------------------------------------------------------------ *)
\* no bind() to remember: none succeeded, or a registration, an unbind() or
\* a change of the current program came after it
NoBind == [phase |-> "none", slots |-> {}]

NoEntry == [bound |-> 0, allocated |-> {}, gpuData |-> <<>>, handle |-> 0,
            data |-> <<>>, attributes |-> <<>>, enabled |-> {},
            program |-> 0, bindValid |-> FALSE, lastBind |-> NoBind]

\* what the caller could observe when the call was entered
Snapshot(m) == [bound |-> bound, allocated |-> allocated, gpuData |-> gpuData,
                handle |-> handle[m], data |-> data[m],
                attributes |-> attributes[m], enabled |-> enabled,
                program |-> program, bindValid |-> bindValid[m],
                lastBind |-> lastBind[m]]

Idle == [op |-> "idle", m |-> 0, pc |-> "idle", arg |-> <<>>,
         newHandle |-> 0, preserved |-> 0, glError |-> "GL_NO_ERROR",
         outcome |-> "", calls |-> <<>>, failedAt |-> 0, rv |-> 0, rhs |-> 0,
         entry |-> NoEntry]

Enter(op, m, pc, arg) ==
    [Idle EXCEPT !.op = op, !.m = m, !.pc = pc,
                 !.arg = arg, !.entry = Snapshot(m)]

\* the call has finished and its outcome is visible to the caller
Done(f) == f.pc = "done"

(* ------------------------------------------------------------------ *)
(* GL buffer primitives                                                *)
(* ------------------------------------------------------------------ *)
\* names glGenBuffers may return: any name not in use
glGenBuffers == Handles \ allocated

\* glDeleteBuffers(1, &h): 0 and unused names are ignored; a deleted buffer
\* that is bound reverts the binding to 0
glDeleteBuffers_allocated(h) == allocated \ {h}
glDeleteBuffers_gpuData(h) ==
    IF h \in allocated THEN [gpuData EXCEPT ![h] = <<>>] ELSE gpuData
glDeleteBuffers_bound(h) == IF h \in allocated /\ bound = h THEN 0 ELSE bound

(* ------------------------------------------------------------------ *)
(* Init                                                                *)
(* ------------------------------------------------------------------ *)
Init ==
    /\ life = [m \in Managers |-> "none"]
    /\ handle = [m \in Managers |-> 0]
    /\ data = [m \in Managers |-> <<>>]
    /\ attributes = [m \in Managers |-> <<>>]
    /\ polyType = [m \in Managers |-> 0]
    /\ sinceReset = [m \in Managers |-> "no"]
    /\ lastBind = [m \in Managers |-> NoBind]
    /\ leaked = {}
    /\ allocated = ForeignBuffers
    /\ gpuData = [h \in Handles |-> <<>>]
    /\ bound = 0
    /\ program = 0
    /\ enabled = {}
    /\ bindValid = [m \in Managers |-> FALSE]
    /\ frame = Idle

(* ------------------------------------------------------------------ *)
(* VertexBufferBindHelper                                              *)
(* ------------------------------------------------------------------ *)
\* variant: the helper unbinds instead of restoring the saved binding
HelperRestore_Unbind(preserved) == 0

\* value glBindBuffer(GL_ARRAY_BUFFER, preserved) leaves in the binding
HelperRestore(preserved) == preserved

\* VertexBufferBindHelper helper(h): save the binding, bind h
HelperCtor(m) ==
    /\ frame.pc = "helper"
    /\ frame.m = m
    /\ LET h == IF frame.op = "ctor" THEN handle[m] ELSE frame.newHandle
       IN  /\ bound' = h
           /\ frame' = [frame EXCEPT !.preserved = bound, !.pc = "bufferData"]
    /\ UNCHANGED <<mgrVars, allocated, gpuData, leaked, attrVars>>

\* ~VertexBufferBindHelper on scope exit, normal or by exception.  When the
\* scope is a constructor left by an exception the object never comes to
\* exist: its members are destroyed and ~VertexBufferImpl is not run.
HelperDtor(m) ==
    /\ frame.pc = "helperDtor"
    /\ frame.m = m
    /\ bound' = HelperRestore(frame.preserved)
    /\ frame' = [frame EXCEPT !.pc = "done"]
    /\ IF frame.op = "ctor"
       THEN IF frame.outcome = "ok"
            THEN /\ life' = [life EXCEPT ![m] = "live"]
                 /\ UNCHANGED <<handle, data, polyType, leaked>>
            ELSE /\ life' = [life EXCEPT ![m] = "none"]
                 /\ handle' = [handle EXCEPT ![m] = 0]
                 /\ data' = [data EXCEPT ![m] = <<>>]
                 /\ polyType' = [polyType EXCEPT ![m] = 0]
                 /\ leaked' = leaked \cup {handle[m]}
       ELSE UNCHANGED <<life, handle, data, polyType, leaked>>
    /\ UNCHANGED <<attributes, allocated, gpuData, attrVars>>

\* glBufferData(GL_ARRAY_BUFFER, ...) into the bound buffer: it either
\* replaces the data store or records GL_OUT_OF_MEMORY.  In that case no
\* store of the requested size exists; what is left is unspecified: the
\* buffer keeps its previous store or has none.
BufferData(m) ==
    /\ frame.pc = "bufferData"
    /\ frame.m = m
    /\ \/ /\ gpuData' = [gpuData EXCEPT ![bound] = frame.arg]
          /\ frame' = [frame EXCEPT !.pc = "getError"]
       \/ /\ \E store \in {<<>>, gpuData[bound]} :
                 gpuData' = [gpuData EXCEPT ![bound] = store]
          /\ frame' = [frame EXCEPT !.pc = "getError",
                                    !.glError = "GL_OUT_OF_MEMORY"]
    /\ UNCHANGED <<mgrVars, allocated, bound, leaked, attrVars>>

(* ------------------------------------------------------------------ *)
(* VertexBufferImpl(const std::vector<T>&) / VertexBufferImpl(vector&&) *)
(* ------------------------------------------------------------------ *)
\* member initialisation data(data).  The two overloads run the same
\* statements: inside the rvalue overload the named parameter is an lvalue,
\* so data(data) copies it as well.
CtorCall(m, p, d) ==
    /\ frame = Idle
    /\ life[m] = "none"
    /\ glGenBuffers # {}
    /\ life' = [life EXCEPT ![m] = "ctor"]
    /\ data' = [data EXCEPT ![m] = d]
    /\ polyType' = [polyType EXCEPT ![m] = p]
    /\ frame' = Enter("ctor", m, "gen", d)
    /\ UNCHANGED <<handle, attributes, bufVars, attrVars>>

\* glGenBuffers(1, &handle)
CtorGen(m) ==
    /\ frame.op = "ctor" /\ frame.pc = "gen" /\ frame.m = m
    /\ \E h \in glGenBuffers :
          /\ allocated' = allocated \cup {h}
          /\ handle' = [handle EXCEPT ![m] = h]
    /\ frame' = [frame EXCEPT !.pc = "helper"]
    /\ UNCHANGED <<life, data, attributes, polyType, gpuData, bound, leaked,
                   attrVars>>

\* if(glGetError() == GL_OUT_OF_MEMORY) throw ResourceException(...): the
\* throw is the only statement of the branch
CtorCheck(m) ==
    /\ frame.op = "ctor" /\ frame.pc = "getError" /\ frame.m = m
    /\ frame' = [frame EXCEPT !.pc = "helperDtor", !.glError = "GL_NO_ERROR",
                   !.outcome = IF frame.glError = "GL_OUT_OF_MEMORY"
                               THEN "ResourceException" ELSE "ok"]
    /\ UNCHANGED <<mgrVars, bufVars, attrVars>>

(* ------------------------------------------------------------------ *)
(* setVertexData / rebuffer                                            *)
(* ------------------------------------------------------------------ *)
\* variant: the guard is missing
ActivelyBound_Unchecked(m) == FALSE

\* the guard of setVertexData: handle == static_cast<GLuint>(bound)
ActivelyBound(m) == handle[m] = bound

\* setVertexData(const std::vector<T>&) / setVertexData(std::vector<T>&&):
\* the two overloads run the same statements, both call rebuffer(const&)
SetVertexData(m, d) ==
    /\ frame = Idle
    /\ life[m] = "live"
    /\ IF ActivelyBound(m)
       THEN frame' = [Enter("setVertexData", m, "done", d)
                        EXCEPT !.outcome = "BindException"]
       ELSE /\ glGenBuffers # {}
            /\ frame' = Enter("setVertexData", m, "gen", d)
    /\ UNCHANGED <<mgrVars, bufVars, attrVars>>

\* rebuffer: glGenBuffers(1, &newHandle)
RebufferGen(m) ==
    /\ frame.op = "setVertexData" /\ frame.pc = "gen" /\ frame.m = m
    /\ \E h \in glGenBuffers :
          /\ allocated' = allocated \cup {h}
          /\ frame' = [frame EXCEPT !.newHandle = h, !.pc = "helper"]
    /\ UNCHANGED <<mgrVars, gpuData, bound, leaked, attrVars>>

\* rebuffer: if(glGetError() == GL_OUT_OF_MEMORY)
RebufferCheck(m) ==
    /\ frame.op = "setVertexData" /\ frame.pc = "getError" /\ frame.m = m
    /\ frame' = [frame EXCEPT !.glError = "GL_NO_ERROR",
                   !.pc = IF frame.glError = "GL_OUT_OF_MEMORY"
                          THEN "deleteNew" ELSE "assignData"]
    /\ UNCHANGED <<mgrVars, bufVars, attrVars>>

\* variant: the failure path throws without deleting the new handle
RebufferFail_Leak(m) ==
    /\ frame.op = "setVertexData" /\ frame.pc = "deleteNew" /\ frame.m = m
    /\ frame' = [frame EXCEPT !.pc = "helperDtor",
                              !.outcome = "ResourceException"]
    /\ UNCHANGED <<mgrVars, bufVars, attrVars>>

\* rebuffer: glDeleteBuffers(1, &newHandle); throw ResourceException(...)
RebufferFail(m) ==
    /\ frame.op = "setVertexData" /\ frame.pc = "deleteNew" /\ frame.m = m
    /\ allocated' = glDeleteBuffers_allocated(frame.newHandle)
    /\ gpuData' = glDeleteBuffers_gpuData(frame.newHandle)
    /\ bound' = glDeleteBuffers_bound(frame.newHandle)
    /\ frame' = [frame EXCEPT !.pc = "helperDtor",
                              !.outcome = "ResourceException"]
    /\ UNCHANGED <<mgrVars, leaked, attrVars>>

\* variant: the CPU-side copy is not refreshed
RebufferAssign_Skip(m) ==
    /\ frame.op = "setVertexData" /\ frame.pc = "assignData" /\ frame.m = m
    /\ frame' = [frame EXCEPT !.pc = "deleteOld"]
    /\ UNCHANGED <<mgrVars, bufVars, attrVars>>

\* rebuffer: this->data = data
RebufferAssign(m) ==
    /\ frame.op = "setVertexData" /\ frame.pc = "assignData" /\ frame.m = m
    /\ data' = [data EXCEPT ![m] = frame.arg]
    /\ frame' = [frame EXCEPT !.pc = "deleteOld"]
    /\ UNCHANGED <<life, handle, attributes, polyType, bufVars, attrVars>>

\* rebuffer: glDeleteBuffers(1, &this->handle)
RebufferDeleteOld(m) ==
    /\ frame.op = "setVertexData" /\ frame.pc = "deleteOld" /\ frame.m = m
    /\ allocated' = glDeleteBuffers_allocated(handle[m])
    /\ gpuData' = glDeleteBuffers_gpuData(handle[m])
    /\ bound' = glDeleteBuffers_bound(handle[m])
    /\ frame' = [frame EXCEPT !.pc = "swap"]
    /\ UNCHANGED <<mgrVars, leaked, attrVars>>

\* variant: the manager keeps its old handle
RebufferSwap_Keep(m) ==
    /\ frame.op = "setVertexData" /\ frame.pc = "swap" /\ frame.m = m
    /\ frame' = [frame EXCEPT !.pc = "helperDtor", !.outcome = "ok"]
    /\ UNCHANGED <<mgrVars, bufVars, attrVars>>

\* rebuffer: this->handle = newHandle
RebufferSwap(m) ==
    /\ frame.op = "setVertexData" /\ frame.pc = "swap" /\ frame.m = m
    /\ handle' = [handle EXCEPT ![m] = frame.newHandle]
    /\ frame' = [frame EXCEPT !.pc = "helperDtor", !.outcome = "ok"]
    /\ UNCHANGED <<life, data, attributes, polyType, bufVars, attrVars>>

(* ------------------------------------------------------------------ *)
(* Attribute descriptors: validation at registration                   *)
(* ------------------------------------------------------------------ *)
\* dynamic_assert(cond, msg): passes when cond holds, otherwise the call
\* fails at once with the message (InvalidAttributeSpec for a descriptor)
dynamic_assert(cond) == cond

\* variant: error condition (8), normalized for GL_BGRA, is not checked
AttributePointerBase_NoCondition8(size, type, stride, normalized) ==
    /\ (size > 0 /\ size < 5) \/ size = GL_BGRA
    /\ stride >= 0
    /\ \/ size # GL_BGRA
       \/ type \in {GL_UNSIGNED_BYTE, GL_INT_2_10_10_10_REV,
                    GL_UNSIGNED_INT_2_10_10_10_REV}
    /\ \/ type \notin {GL_INT_2_10_10_10_REV, GL_UNSIGNED_INT_2_10_10_10_REV}
       \/ size \in {4, GL_BGRA}
    /\ type # GL_UNSIGNED_INT_10F_11F_11F_REV \/ size = 3

\* AttributePointerBase::AttributePointerBase, error conditions (2), (4)-(8)
AttributePointerBase(size, type, stride, normalized) ==
    /\ dynamic_assert((size > 0 /\ size < 5) \/ size = GL_BGRA)
    /\ dynamic_assert(stride >= 0)
    /\ dynamic_assert(\/ size # GL_BGRA
                      \/ type = GL_UNSIGNED_BYTE
                      \/ type = GL_INT_2_10_10_10_REV
                      \/ type = GL_UNSIGNED_INT_2_10_10_10_REV)
    /\ dynamic_assert(\/ (type # GL_INT_2_10_10_10_REV
                            /\ type # GL_UNSIGNED_INT_2_10_10_10_REV)
                      \/ size = 4
                      \/ size = GL_BGRA)
    /\ dynamic_assert(type # GL_UNSIGNED_INT_10F_11F_11F_REV \/ size = 3)
    /\ dynamic_assert(size # GL_BGRA \/ normalized = TRUE)

\* AttributePointer::AttributePointer, error condition (3)
AttributePointer(size, type, normalized, stride) ==
    /\ AttributePointerBase(size, type, stride, normalized)
    /\ dynamic_assert(type \in {GL_BYTE, GL_UNSIGNED_BYTE, GL_SHORT,
                                GL_UNSIGNED_SHORT, GL_INT, GL_UNSIGNED_INT,
                                GL_HALF_FLOAT, GL_FLOAT, GL_DOUBLE, GL_FIXED,
                                GL_INT_2_10_10_10_REV,
                                GL_UNSIGNED_INT_2_10_10_10_REV,
                                GL_UNSIGNED_INT_10F_11F_11F_REV})

\* variant: the integer family accepts the type list of the float family
AttributeIPointer_FloatTypes(size, type, stride) ==
    AttributePointer(size, type, FALSE, stride)

\* AttributeIPointer::AttributeIPointer: normalized defaults to GL_FALSE
AttributeIPointer(size, type, stride) ==
    /\ AttributePointerBase(size, type, stride, FALSE)
    /\ dynamic_assert(type \in {GL_BYTE, GL_UNSIGNED_BYTE, GL_SHORT,
                                GL_UNSIGNED_SHORT, GL_INT, GL_UNSIGNED_INT})

\* AttributeLPointer::AttributeLPointer: normalized defaults to GL_FALSE
AttributeLPointer(size, type, stride) ==
    /\ AttributePointerBase(size, type, stride, FALSE)
    /\ dynamic_assert(type = GL_DOUBLE)

\* a registered descriptor (the offset is carried along and never checked)
Descriptor(family, name, size, type, normalized, stride) ==
    [family |-> family, name |-> name, size |-> size, type |-> type,
     normalized |-> normalized, stride |-> stride]

\* arguments the callers of this model pass to the three registrations:
\* <<name, size, type, normalized, stride>>, valid and invalid ones
PointerCalls == { <<"pos", 3, GL_FLOAT, FALSE, 0>>,
                  <<"col", GL_BGRA, GL_UNSIGNED_BYTE, TRUE, 4>>,
                  <<"col", GL_BGRA, GL_UNSIGNED_BYTE, FALSE, 4>> }
IPointerCalls == { <<"col", 2, GL_INT, FALSE, 0>>,
                   <<"col", 2, GL_FLOAT, FALSE, 0>> }
LPointerCalls == { <<"col", 4, GL_DOUBLE, FALSE, 8>>,
                   <<"col", 4, GL_DOUBLE, FALSE, -8>> }

\* variant: the descriptor is put at the front of the list
Register_PushFront(m, op, family, valid, c) ==
    /\ frame = Idle
    /\ life[m] = "live"
    /\ Len(attributes[m]) < MaxAttrs
    /\ IF valid
       THEN /\ attributes' = [attributes EXCEPT ![m] =
                 <<[family |-> family, name |-> c[1], size |-> c[2],
                    type |-> c[3], normalized |-> c[4], stride |-> c[5]]>> \o @]
            /\ bindValid' = [bindValid EXCEPT ![m] = FALSE]
            /\ sinceReset' = [sinceReset EXCEPT ![m] = "no"]
            /\ lastBind' = [lastBind EXCEPT ![m] = NoBind]
            /\ frame' = [Enter(op, m, "done", c) EXCEPT !.outcome = "ok"]
       ELSE /\ UNCHANGED <<attributes, bindValid, sinceReset, lastBind>>
            /\ frame' = [Enter(op, m, "done", c)
                           EXCEPT !.outcome = "InvalidAttributeSpec"]
    /\ UNCHANGED <<life, handle, data, polyType, bufVars, program, enabled>>

\* attributes.push_back(new <family>(...)): the constructor runs first, a
\* failing constructor leaves the list alone
Register(m, op, family, valid, c) ==
    /\ frame = Idle
    /\ life[m] = "live"
    /\ Len(attributes[m]) < MaxAttrs
    /\ IF valid
       THEN /\ attributes' = [attributes EXCEPT ![m] =
                 Append(@, Descriptor(family, c[1], c[2], c[3], c[4], c[5]))]
            /\ bindValid' = [bindValid EXCEPT ![m] = FALSE]
            /\ sinceReset' = [sinceReset EXCEPT ![m] = "no"]
            /\ lastBind' = [lastBind EXCEPT ![m] = NoBind]
            /\ frame' = [Enter(op, m, "done", c) EXCEPT !.outcome = "ok"]
       ELSE /\ UNCHANGED <<attributes, bindValid, sinceReset, lastBind>>
            /\ frame' = [Enter(op, m, "done", c)
                           EXCEPT !.outcome = "InvalidAttributeSpec"]
    /\ UNCHANGED <<life, handle, data, polyType, bufVars, program, enabled>>

addAttributePointer(m, c) ==
    Register(m, "addAttributePointer", "AttributePointer",
             AttributePointer(c[2], c[3], c[4], c[5]), c)

\* variant: the integer family passes normalized = GL_TRUE to the shared checks
addAttributeIPointer_Normalized(m, c) ==
    Register(m, "addAttributeIPointer", "AttributeIPointer",
             /\ AttributePointerBase(c[2], c[3], c[5], TRUE)
             /\ dynamic_assert(c[3] \in {GL_BYTE, GL_UNSIGNED_BYTE, GL_SHORT,
                                         GL_UNSIGNED_SHORT, GL_INT,
                                         GL_UNSIGNED_INT}),
             c)

addAttributeIPointer(m, c) ==
    Register(m, "addAttributeIPointer", "AttributeIPointer",
             AttributeIPointer(c[2], c[3], c[5]), c)

\* addAttributeLPointer takes no type: it passes GL_DOUBLE
addAttributeLPointer(m, c) ==
    Register(m, "addAttributeLPointer", "AttributeLPointer",
             AttributeLPointer(c[2], GL_DOUBLE, c[5]),
             <<c[1], c[2], GL_DOUBLE, FALSE, c[5]>>)

\* variant: only the last descriptor is removed
resetAttributes_PopBack(m) ==
    /\ frame = Idle
    /\ life[m] = "live"
    /\ attributes' = [attributes EXCEPT ![m] =
          IF @ = <<>> THEN <<>> ELSE SubSeq(@, 1, Len(@) - 1)]
    /\ bindValid' = [bindValid EXCEPT ![m] = FALSE]
    /\ sinceReset' = [sinceReset EXCEPT ![m] = "reset"]
    /\ lastBind' = [lastBind EXCEPT ![m] =
          IF @.phase = "bind" THEN [@ EXCEPT !.phase = "reset"] ELSE NoBind]
    /\ frame' = [Enter("resetAttributes", m, "done", <<>>) EXCEPT !.outcome = "ok"]
    /\ UNCHANGED <<life, handle, data, polyType, bufVars, program, enabled>>

\* resetAttributes: attributes.clear()
resetAttributes(m) ==
    /\ frame = Idle
    /\ life[m] = "live"
    /\ attributes' = [attributes EXCEPT ![m] = <<>>]
    /\ bindValid' = [bindValid EXCEPT ![m] = FALSE]
    /\ sinceReset' = [sinceReset EXCEPT ![m] = "reset"]
    /\ lastBind' = [lastBind EXCEPT ![m] =
          IF @.phase = "bind" THEN [@ EXCEPT !.phase = "reset"] ELSE NoBind]
    /\ frame' = [Enter("resetAttributes", m, "done", <<>>) EXCEPT !.outcome = "ok"]
    /\ UNCHANGED <<life, handle, data, polyType, bufVars, program, enabled>>

(* ------------------------------------------------------------------ *)
(* bind / unbind                                                       *)
(* ------------------------------------------------------------------ *)
\* variant: the result of glGetAttribLocation is returned unchecked
getAttribLocation_Unchecked(prog, name) ==
    [exc |-> "", rv |-> glGetAttribLocation(prog, name)]

\* detail::getAttribLocation: the exception it raises, or "" and the slot
getAttribLocation(prog, name) ==
    IF ~dynamic_assert(prog # 0)
    THEN [exc |-> "AssertionFailure", rv |-> -1]
    ELSE IF glGetAttribLocation(prog, name) = -1
         THEN [exc |-> "AttributeNotFoundException", rv |-> -1]
         ELSE [exc |-> "", rv |-> glGetAttribLocation(prog, name)]

\* variant: every descriptor is applied with the float call
postBind_FloatOnly(d, index) ==
    <<"glVertexAttribPointer", index, d.size, d.type, d.normalized, d.stride>>

\* postBind of the three descriptor types: the GL call each one issues
postBind(d, index) ==
    CASE d.family = "AttributePointer" ->
           <<"glVertexAttribPointer", index, d.size, d.type, d.normalized, d.stride>>
      [] d.family = "AttributeIPointer" ->
           <<"glVertexAttribIPointer", index, d.size, d.type, d.stride>>
      [] d.family = "AttributeLPointer" ->
           <<"glVertexAttribLPointer", index, d.size, d.type, d.stride>>

\* the loop of bind(): ptr->bind(programHandle) for each descriptor in list
\* order, left at the first exception
RECURSIVE BindLoop(_, _, _, _, _)
BindLoop(attrs, prog, i, en, calls) ==
    IF i > Len(attrs)
    THEN [outcome |-> "ok", enabled |-> en, calls |-> calls, failedAt |-> 0]
    ELSE LET loc == getAttribLocation(prog, attrs[i].name)
         IN  IF loc.exc # ""
             THEN [outcome |-> loc.exc, enabled |-> en, calls |-> calls,
                   failedAt |-> i]
             ELSE IF ~dynamic_assert(loc.rv < GL_MAX_VERTEX_ATTRIBS)
                  THEN [outcome |-> "AssertionFailure", enabled |-> en,
                        calls |-> calls, failedAt |-> i]
                  ELSE BindLoop(attrs, prog, i + 1, en \cup {loc.rv},
                                calls \o << <<"glEnableVertexAttribArray", loc.rv>>,
                                            postBind(attrs[i], loc.rv) >>)

\* variant: bind() does not look at the current program
NoProgram_Unchecked(prog) == FALSE

\* the first statement of bind(): no program, no bind
NoProgram(prog) == prog = 0

\* variant: the buffer is made current only when every descriptor applied
bind_BufferLast(m) ==
    /\ frame = Idle
    /\ life[m] = "live"
    /\ IF NoProgram(program)
       THEN /\ frame' = [Enter("bind", m, "done", <<>>)
                           EXCEPT !.outcome = "BindException"]
            /\ UNCHANGED <<bound, enabled, bindValid, lastBind>>
       ELSE LET r == BindLoop(attributes[m], program, 1, enabled, <<>>)
            IN  /\ bound' = IF r.outcome = "ok" THEN handle[m] ELSE bound
                /\ enabled' = r.enabled
                /\ bindValid' = [bindValid EXCEPT ![m] = (r.outcome = "ok")]
                /\ lastBind' = [lastBind EXCEPT ![m] =
                      IF r.outcome = "ok"
                      THEN [phase |-> "bind",
                            slots |-> { r.calls[2 * i - 1][2] :
                                          i \in 1 .. Len(r.calls) \div 2 }]
                      ELSE NoBind]
                /\ frame' = [Enter("bind", m, "done", <<>>)
                               EXCEPT !.outcome = r.outcome, !.calls = r.calls,
                                      !.failedAt = r.failedAt]
    /\ UNCHANGED <<mgrVars, allocated, gpuData, leaked, program, sinceReset>>

\* VertexBufferImpl::bind
bind(m) ==
    /\ frame = Idle
    /\ life[m] = "live"
    /\ IF NoProgram(program)
       THEN /\ frame' = [Enter("bind", m, "done", <<>>)
                           EXCEPT !.outcome = "BindException"]
            /\ UNCHANGED <<bound, enabled, bindValid, lastBind>>
       ELSE LET r == BindLoop(attributes[m], program, 1, enabled, <<>>)
            IN  /\ bound' = handle[m]
                /\ enabled' = r.enabled
                /\ bindValid' = [bindValid EXCEPT ![m] = (r.outcome = "ok")]
                /\ lastBind' = [lastBind EXCEPT ![m] =
                      IF r.outcome = "ok"
                      THEN [phase |-> "bind",
                            slots |-> { r.calls[2 * i - 1][2] :
                                          i \in 1 .. Len(r.calls) \div 2 }]
                      ELSE NoBind]
                /\ frame' = [Enter("bind", m, "done", <<>>)
                               EXCEPT !.outcome = r.outcome, !.calls = r.calls,
                                      !.failedAt = r.failedAt]
    /\ UNCHANGED <<mgrVars, allocated, gpuData, leaked, program, sinceReset>>

\* variant: unbind() leaves the attribute arrays enabled
UnbindLoop_KeepsEnabled(attrs, prog, i, en) ==
    [outcome |-> "ok", enabled |-> en, failedAt |-> 0]

\* the loop of unbind(): ptr->unbind() for each descriptor, which looks the
\* name up in the program current now
RECURSIVE UnbindLoop(_, _, _, _)
UnbindLoop(attrs, prog, i, en) ==
    IF i > Len(attrs)
    THEN [outcome |-> "ok", enabled |-> en, failedAt |-> 0]
    ELSE LET loc == getAttribLocation(prog, attrs[i].name)
         IN  IF loc.exc # ""
             THEN [outcome |-> loc.exc, enabled |-> en, failedAt |-> i]
             ELSE UnbindLoop(attrs, prog, i + 1, en \ {loc.rv})

\* variant: unbind() disables every enabled attribute array
unbind_DisablesAll(m) ==
    /\ frame = Idle
    /\ life[m] = "live"
    /\ bound' = 0
    /\ enabled' = {}
    /\ frame' = [Enter("unbind", m, "done", <<>>) EXCEPT !.outcome = "ok"]
    /\ bindValid' = [bindValid EXCEPT ![m] = FALSE]
    /\ lastBind' = [lastBind EXCEPT ![m] = NoBind]
    /\ UNCHANGED <<mgrVars, allocated, gpuData, leaked, program, sinceReset>>

\* VertexBufferImpl::unbind() noexcept: an exception that escapes it ends
\* the process (std::terminate), nothing runs after that
unbind(m) ==
    /\ frame = Idle
    /\ life[m] = "live"
    /\ LET r == UnbindLoop(attributes[m], program, 1, enabled)
       IN  /\ bound' = 0
           /\ enabled' = r.enabled
           /\ frame' = [Enter("unbind", m,
                              IF r.outcome = "ok" THEN "done" ELSE "terminated",
                              <<>>)
                          EXCEPT !.outcome = r.outcome, !.failedAt = r.failedAt]
    /\ bindValid' = [bindValid EXCEPT ![m] = FALSE]
    /\ lastBind' = [lastBind EXCEPT ![m] = NoBind]
    /\ UNCHANGED <<mgrVars, allocated, gpuData, leaked, program, sinceReset>>

(* ------------------------------------------------------------------ *)
(* ~VertexBufferImpl                                                   *)
(* ------------------------------------------------------------------ *)
\* variant: a buffer that is currently bound is not deleted
Destroy_KeepBound(m) ==
    /\ frame = Idle
    /\ life[m] = "live"
    /\ IF handle[m] = bound
       THEN UNCHANGED <<allocated, gpuData, bound>>
       ELSE /\ allocated' = glDeleteBuffers_allocated(handle[m])
            /\ gpuData' = glDeleteBuffers_gpuData(handle[m])
            /\ bound' = glDeleteBuffers_bound(handle[m])
    /\ life' = [life EXCEPT ![m] = "none"]
    /\ handle' = [handle EXCEPT ![m] = 0]
    /\ data' = [data EXCEPT ![m] = <<>>]
    /\ attributes' = [attributes EXCEPT ![m] = <<>>]
    /\ polyType' = [polyType EXCEPT ![m] = 0]
    /\ bindValid' = [bindValid EXCEPT ![m] = FALSE]
    /\ sinceReset' = [sinceReset EXCEPT ![m] = "no"]
    /\ lastBind' = [lastBind EXCEPT ![m] = NoBind]
    /\ frame' = [Enter("destroy", m, "done", <<>>) EXCEPT !.outcome = "ok"]
    /\ UNCHANGED <<program, enabled, leaked>>

\* glDeleteBuffers(1, &handle), then the members are destroyed
Destroy(m) ==
    /\ frame = Idle
    /\ life[m] = "live"
    /\ allocated' = glDeleteBuffers_allocated(handle[m])
    /\ gpuData' = glDeleteBuffers_gpuData(handle[m])
    /\ bound' = glDeleteBuffers_bound(handle[m])
    /\ life' = [life EXCEPT ![m] = "none"]
    /\ handle' = [handle EXCEPT ![m] = 0]
    /\ data' = [data EXCEPT ![m] = <<>>]
    /\ attributes' = [attributes EXCEPT ![m] = <<>>]
    /\ polyType' = [polyType EXCEPT ![m] = 0]
    /\ bindValid' = [bindValid EXCEPT ![m] = FALSE]
    /\ sinceReset' = [sinceReset EXCEPT ![m] = "no"]
    /\ lastBind' = [lastBind EXCEPT ![m] = NoBind]
    /\ frame' = [Enter("destroy", m, "done", <<>>) EXCEPT !.outcome = "ok"]
    /\ UNCHANGED <<program, enabled, leaked>>

(* ------------------------------------------------------------------ *)
(* VertexBufferImpl(VertexBufferImpl&&)                                *)
(* ------------------------------------------------------------------ *)
\* variant: rhs.handle is not cleared
MoveCtor_KeepsHandle(dst, src) ==
    /\ frame = Idle
    /\ dst # src
    /\ life[dst] = "none"
    /\ life[src] = "live"
    /\ life' = [life EXCEPT ![dst] = "live"]
    /\ handle' = [handle EXCEPT ![dst] = handle[src]]
    /\ data' = [data EXCEPT ![dst] = data[src], ![src] = <<>>]
    /\ attributes' = [attributes EXCEPT ![dst] = attributes[src], ![src] = <<>>]
    /\ polyType' = [polyType EXCEPT ![dst] = polyType[src]]
    /\ bindValid' = [bindValid EXCEPT ![dst] = FALSE, ![src] = FALSE]
    /\ sinceReset' = [sinceReset EXCEPT ![dst] = "no", ![src] = "no"]
    /\ lastBind' = [lastBind EXCEPT ![dst] = NoBind, ![src] = NoBind]
    /\ frame' = [Enter("move", src, "done", <<>>)
                   EXCEPT !.m = dst, !.rhs = src, !.outcome = "ok"]
    /\ UNCHANGED <<bufVars, program, enabled>>

\* handle(rhs.handle), data(std::move(rhs.data)),
\* attributes(std::move(rhs.attributes)), then rhs.handle = 0.  The moved-
\* from vector and list are left empty.  Both objects are of one class, so
\* of one PolyType.
MoveCtor(dst, src) ==
    /\ frame = Idle
    /\ dst # src
    /\ life[dst] = "none"
    /\ life[src] = "live"
    /\ life' = [life EXCEPT ![dst] = "live"]
    /\ handle' = [handle EXCEPT ![dst] = handle[src], ![src] = 0]
    /\ data' = [data EXCEPT ![dst] = data[src], ![src] = <<>>]
    /\ attributes' = [attributes EXCEPT ![dst] = attributes[src], ![src] = <<>>]
    /\ polyType' = [polyType EXCEPT ![dst] = polyType[src]]
    /\ bindValid' = [bindValid EXCEPT ![dst] = FALSE, ![src] = FALSE]
    /\ sinceReset' = [sinceReset EXCEPT ![dst] = "no", ![src] = "no"]
    /\ lastBind' = [lastBind EXCEPT ![dst] = NoBind, ![src] = NoBind]
    /\ frame' = [Enter("move", src, "done", <<>>)
                   EXCEPT !.m = dst, !.rhs = src, !.outcome = "ok"]
    /\ UNCHANGED <<bufVars, program, enabled>>

(* ------------------------------------------------------------------ *)
(* vertexCount                                                         *)
(* ------------------------------------------------------------------ *)
\* detail::PolySize<PolyType>::size(); the class accepts GL_TRIANGLES and
\* GL_QUADS only
PolySize(p) ==
    CASE p = GL_POINTS -> 1
      [] p = GL_LINES -> 2
      [] p = GL_TRIANGLES -> 3
      [] p = GL_QUADS -> 4

\* variant: the quotient is rounded up
vertexCountOf_RoundUp(d, p) == (Len(d) + PolySize(p) - 1) \div PolySize(p)

\* data.size() / PolySize<PolyType>::size(), in std::size_t
vertexCountOf(d, p) == Len(d) \div PolySize(p)

\* VertexBufferImpl::vertexCount
vertexCount(m) ==
    /\ frame = Idle
    /\ life[m] = "live"
    /\ frame' = [Enter("vertexCount", m, "done", <<>>)
                   EXCEPT !.outcome = "ok",
                          !.rv = vertexCountOf(data[m], polyType[m])]
    /\ UNCHANGED <<mgrVars, bufVars, attrVars>>

(* ------------------------------------------------------------------ *)
(* The caller and the rest of the application                          *)
(* ------------------------------------------------------------------ *)
\* the finished call returns to its caller
Return ==
    /\ Done(frame)
    /\ frame' = Idle
    /\ UNCHANGED <<mgrVars, bufVars, attrVars>>

\* unrelated code binds a buffer of the context (or none)
EnvBindBuffer(h) ==
    /\ frame = Idle
    /\ h \in allocated \cup {0}
    /\ h # bound
    /\ bound' = h
    /\ UNCHANGED <<mgrVars, allocated, gpuData, leaked, attrVars, frame>>

\* the application makes another program current (or none)
EnvUseProgram(p) ==
    /\ frame = Idle
    /\ p # program
    /\ program' = p
    /\ bindValid' = [m \in Managers |-> FALSE]
    /\ lastBind' = [m \in Managers |-> NoBind]
    /\ UNCHANGED <<mgrVars, bufVars, enabled, sinceReset, frame>>

\* the calls of one manager
Call(m) ==
    \/ \E d \in DataInputs : CtorCall(m, GL_TRIANGLES, d)
    \/ CtorGen(m)
    \/ CtorCheck(m)
    \/ HelperCtor(m)
    \/ BufferData(m)
    \/ HelperDtor(m)
    \/ \E d \in DataInputs : SetVertexData(m, d)
    \/ RebufferGen(m)
    \/ RebufferCheck(m)
    \/ RebufferFail(m)
    \/ RebufferAssign(m)
    \/ RebufferDeleteOld(m)
    \/ RebufferSwap(m)
    \/ \E c \in PointerCalls : addAttributePointer(m, c)
    \/ \E c \in IPointerCalls : addAttributeIPointer(m, c)
    \/ \E c \in LPointerCalls : addAttributeLPointer(m, c)
    \/ resetAttributes(m)
    \/ bind(m)
    \/ unbind(m)
    \/ vertexCount(m)
    \/ Destroy(m)

Next ==
    \/ Call(1)
    \/ Return
    \/ \E h \in Handles \cup {0} : EnvBindBuffer(h)
    \/ \E p \in Programs \cup {0} : EnvUseProgram(p)

Spec == Init /\ [][Next]_vars

(* ------------------------------------------------------------------ *)
(* Registration over the whole argument space                          *)
(* ------------------------------------------------------------------ *)
\* component counts, types, strides handed to the three registrations;
\* 5127 (GL_2_BYTES) is an enumerant no family accepts
SizeInputs == {0, 1, 2, 3, 4, 5, GL_BGRA}
TypeInputs == {GL_BYTE, GL_UNSIGNED_BYTE, GL_SHORT, GL_UNSIGNED_SHORT, GL_INT,
               GL_UNSIGNED_INT, GL_HALF_FLOAT, GL_FLOAT, GL_DOUBLE, GL_FIXED,
               GL_INT_2_10_10_10_REV, GL_UNSIGNED_INT_2_10_10_10_REV,
               GL_UNSIGNED_INT_10F_11F_11F_REV, 5127}
StrideInputs == {-1, 0, 16}

AllPointerCalls ==
    { <<"pos", sz, t, n, st>> :
        sz \in SizeInputs, t \in TypeInputs, n \in BOOLEAN, st \in StrideInputs }
AllIPointerCalls ==
    { <<"pos", sz, t, FALSE, st>> :
        sz \in SizeInputs, t \in TypeInputs, st \in StrideInputs }
AllLPointerCalls ==
    { <<"pos", sz, GL_DOUBLE, FALSE, st>> :
        sz \in SizeInputs, st \in StrideInputs }

\* a manager constructed from <<1, 2, 3>>, nothing registered yet
InitReg ==
    /\ life = [m \in Managers |-> IF m = 1 THEN "live" ELSE "none"]
    /\ handle = [m \in Managers |-> IF m = 1 THEN 2 ELSE 0]
    /\ data = [m \in Managers |-> IF m = 1 THEN <<1, 2, 3>> ELSE <<>>]
    /\ attributes = [m \in Managers |-> <<>>]
    /\ polyType = [m \in Managers |-> IF m = 1 THEN GL_TRIANGLES ELSE 0]
    /\ sinceReset = [m \in Managers |-> "no"]
    /\ lastBind = [m \in Managers |-> NoBind]
    /\ leaked = {}
    /\ allocated = ForeignBuffers \cup {2}
    /\ gpuData = [h \in Handles |-> IF h = 2 THEN <<1, 2, 3>> ELSE <<>>]
    /\ bound = 0
    /\ program = 0
    /\ enabled = {}
    /\ bindValid = [m \in Managers |-> FALSE]
    /\ frame = Idle

\* the caller registers one descriptor at a time and resets in between
NextReg ==
    \/ /\ attributes[1] = <<>>
       /\ \E c \in AllPointerCalls : addAttributePointer(1, c)
    \/ /\ attributes[1] = <<>>
       /\ \E c \in AllIPointerCalls : addAttributeIPointer(1, c)
    \/ /\ attributes[1] = <<>>
       /\ \E c \in AllLPointerCalls : addAttributeLPointer(1, c)
    \/ resetAttributes(1)
    \/ Return

SpecReg == InitReg /\ [][NextReg]_vars

(* ------------------------------------------------------------------ *)
(* Two managers: ownership of the buffer objects                       *)
(* ------------------------------------------------------------------ *)
\* the registration the callers of this specification make
OwnCalls == { <<"pos", 3, GL_FLOAT, FALSE, 0>> }

CallOwn(m) ==
    \/ \E p \in {GL_TRIANGLES, GL_QUADS}, d \in DataInputs : CtorCall(m, p, d)
    \/ CtorGen(m)
    \/ CtorCheck(m)
    \/ HelperCtor(m)
    \/ BufferData(m)
    \/ HelperDtor(m)
    \/ \E d \in DataInputs : SetVertexData(m, d)
    \/ RebufferGen(m)
    \/ RebufferCheck(m)
    \/ RebufferFail(m)
    \/ RebufferAssign(m)
    \/ RebufferDeleteOld(m)
    \/ RebufferSwap(m)
    \/ \E c \in OwnCalls : addAttributePointer(m, c)
    \/ \E src \in Managers : MoveCtor(m, src)
    \/ vertexCount(m)
    \/ Destroy(m)

NextOwn ==
    \/ \E m \in Managers : CallOwn(m)
    \/ Return
    \/ \E h \in Handles \cup {0} : EnvBindBuffer(h)

SpecOwn == Init /\ [][NextOwn]_vars

(* ------------------------------------------------------------------ *)
(* Properties                                                          *)
(* ------------------------------------------------------------------ *)
\* the call in progress is op and has reached its caller with outcome
Finished(op, outcome) ==
    Done(frame) /\ frame.op = op /\ frame.outcome = outcome

\* the slot a descriptor's name resolves to in a program (-1: none)
SlotOf(prog, d) == glGetAttribLocation(prog, d.name)

\* C1: a constructor that raises the out-of-memory error has released the
\* handle it generated, so the number of allocated buffer handles is what
\* it was before the constructor was called.
C1_CtorFailureReleasesHandle ==
    Finished("ctor", "ResourceException")
        => /\ Cardinality(allocated) = Cardinality(frame.entry.allocated)
           /\ allocated = frame.entry.allocated

\* C2: setVertexData called while the manager's handle is the bound array
\* buffer fails with BindException and leaves the handle, the CPU-side
\* data, the allocated handles and the binding as they were.
C2_ReuploadWhileBoundFails ==
    (frame.op = "setVertexData" /\ frame.entry.handle = frame.entry.bound)
        => /\ Finished("setVertexData", "BindException")
           /\ handle[frame.m] = frame.entry.handle
           /\ data[frame.m] = frame.entry.data
           /\ allocated = frame.entry.allocated
           /\ gpuData = frame.entry.gpuData
           /\ bound = frame.entry.bound

C2_Witness ==
    /\ Finished("setVertexData", "BindException")
    /\ handle[frame.m] # 0
    /\ bound = handle[frame.m]
    /\ frame.arg # data[frame.m]

\* C3: a re-upload that fails with the out-of-memory error leaves the
\* original buffer intact: same handle, still allocated, same GPU contents
\* and CPU-side data, and the newly generated handle is released.
C3_FailedReuploadKeepsOriginal ==
    Finished("setVertexData", "ResourceException")
        => /\ handle[frame.m] = frame.entry.handle
           /\ frame.entry.handle \in frame.entry.allocated
                 => handle[frame.m] \in allocated
           /\ \A h \in frame.entry.allocated :
                 gpuData[h] = frame.entry.gpuData[h]
           /\ data[frame.m] = frame.entry.data
           /\ frame.newHandle # 0
           /\ frame.newHandle \notin allocated
           /\ allocated = frame.entry.allocated

C3_Witness ==
    /\ Finished("setVertexData", "ResourceException")
    /\ handle[frame.m] \in allocated
    /\ frame.arg # data[frame.m]
    /\ gpuData[handle[frame.m]] = data[frame.m]

\* C4: a successful re-upload leaves the CPU-side data equal to the new
\* input, the manager's handle a newly allocated one different from the
\* old one, and the old handle no longer allocated.
C4_SuccessfulReupload ==
    Finished("setVertexData", "ok")
        => /\ frame.entry.handle # frame.entry.bound
           /\ data[frame.m] = frame.arg
           /\ handle[frame.m] # frame.entry.handle
           /\ handle[frame.m] \in allocated
           /\ handle[frame.m] \notin frame.entry.allocated
           /\ frame.entry.handle \notin allocated

C4_Witness ==
    /\ Finished("setVertexData", "ok")
    /\ frame.entry.handle \in frame.entry.allocated
    /\ frame.arg # frame.entry.data

\* C5: on every exit path of a constructor or of setVertexData the array
\* buffer binding is the one that was current when the call was entered.
C5_BindingRestored ==
    (Done(frame) /\ frame.op \in {"ctor", "setVertexData"})
        => bound = frame.entry.bound

C5_Witness ==
    /\ Finished("setVertexData", "ResourceException")
    /\ frame.entry.bound # 0
    /\ bound = frame.entry.bound

\* C6: in every intermediate state of setVertexData the manager's handle
\* names an allocated buffer (the old handle is freed only after the swap).
C6_HandleAllocatedThroughout ==
    (frame.op = "setVertexData" /\ frame.entry.handle \in frame.entry.allocated)
        => handle[frame.m] \in allocated

\* C7: bind with no current program fails with BindException, whatever the
\* descriptor list, and changes neither the binding nor the enabled slots.
C7_BindWithoutProgram ==
    (frame.op = "bind" /\ frame.entry.program = 0)
        => /\ Finished("bind", "BindException")
           /\ frame.calls = <<>>
           /\ bound = frame.entry.bound
           /\ enabled = frame.entry.enabled

C7_Witness ==
    /\ Finished("bind", "BindException")
    /\ program = 0
    /\ Len(attributes[frame.m]) = MaxAttrs
    /\ bound # handle[frame.m]
    /\ enabled = {}

\* C8: bind with a current program in which the name of at least one
\* registered descriptor has no location fails with AttributeNotFound,
\* wherever the descriptor stands in the list and whatever its family.
C8_BindMissingAttribute ==
    (/\ frame.op = "bind"
     /\ frame.entry.program # 0
     /\ \E i \in 1 .. Len(frame.entry.attributes) :
           SlotOf(frame.entry.program, frame.entry.attributes[i]) = -1)
        => Finished("bind", "AttributeNotFoundException")

C8_Witness ==
    /\ Finished("bind", "AttributeNotFoundException")
    /\ frame.failedAt = 2
    /\ attributes[frame.m][2].family = "AttributeLPointer"
    /\ attributes[frame.m][1].family = "AttributePointer"

\* C9: a bind with a current program in which every registered name
\* resolves succeeds, leaves the manager's handle bound and, for every
\* descriptor in list order, enables the slot of its name and configures
\* it with the call of the descriptor's own family.
C9_SuccessfulBind ==
    (/\ frame.op = "bind"
     /\ frame.entry.program # 0
     /\ \A i \in 1 .. Len(frame.entry.attributes) :
           SlotOf(frame.entry.program, frame.entry.attributes[i]) # -1)
        => /\ Finished("bind", "ok")
           /\ bound = handle[frame.m]
           /\ Len(frame.calls) = 2 * Len(attributes[frame.m])
           /\ \A i \in 1 .. Len(attributes[frame.m]) :
                 LET d == attributes[frame.m][i]
                     slot == SlotOf(program, d)
                     call == frame.calls[2 * i]
                 IN  /\ slot \in enabled
                     /\ frame.calls[2 * i - 1] = <<"glEnableVertexAttribArray", slot>>
                     /\ call[2] = slot
                     /\ call[3] = d.size
                     /\ call[4] = d.type
                     /\ d.family = "AttributePointer"
                           => call = <<"glVertexAttribPointer", slot, d.size,
                                       d.type, d.normalized, d.stride>>
                     /\ d.family = "AttributeIPointer"
                           => call = <<"glVertexAttribIPointer", slot, d.size,
                                       d.type, d.stride>>
                     /\ d.family = "AttributeLPointer"
                           => call = <<"glVertexAttribLPointer", slot, d.size,
                                       d.type, d.stride>>

C9_Witness ==
    /\ Finished("bind", "ok")
    /\ Len(attributes[frame.m]) = 2
    /\ attributes[frame.m][1].family = "AttributeIPointer"
    /\ attributes[frame.m][2].family = "AttributePointer"
    /\ attributes[frame.m][2].name = "pos"
    /\ frame.entry.enabled = {}
    /\ enabled = {0, 1}
    /\ frame.entry.bound # handle[frame.m]

\* C10: when bind succeeded and neither the current program nor the
\* descriptor list has changed since, unbind sets the binding to 0 and
\* leaves none of the slots that bind enabled enabled.
C10_UnbindDisables ==
    (frame.op = "unbind" /\ frame.entry.bindValid)
        => /\ Finished("unbind", "ok")
           /\ bound = 0
           /\ program = frame.entry.program
           /\ attributes[frame.m] = frame.entry.attributes
           /\ \A i \in 1 .. Len(attributes[frame.m]) :
                 /\ SlotOf(program, attributes[frame.m][i]) # -1
                 /\ SlotOf(program, attributes[frame.m][i]) \notin enabled

C10_Witness ==
    /\ Finished("unbind", "ok")
    /\ frame.entry.bindValid
    /\ frame.entry.bound = handle[frame.m]
    /\ frame.entry.enabled = {0, 1}
    /\ Len(attributes[frame.m]) = 2
    /\ enabled = {}

\* C11: resetAttributes changes only the descriptor list (binding, enabled
\* slots, handle and data stay as they were), and the next bind with a
\* current program only makes the buffer current: it enables no slot.
C11_ResetThenBind ==
    /\ Finished("resetAttributes", "ok")
          => /\ attributes[frame.m] = <<>>
             /\ bound = frame.entry.bound
             /\ enabled = frame.entry.enabled
             /\ program = frame.entry.program
             /\ handle[frame.m] = frame.entry.handle
             /\ data[frame.m] = frame.entry.data
             /\ allocated = frame.entry.allocated
             /\ gpuData = frame.entry.gpuData
    /\ (/\ frame.op = "bind"
        /\ sinceReset[frame.m] = "reset"
        /\ frame.entry.program # 0)
          => /\ Finished("bind", "ok")
             /\ frame.calls = <<>>
             /\ enabled = frame.entry.enabled
             /\ bound = handle[frame.m]

C11_Witness ==
    /\ Finished("bind", "ok")
    /\ sinceReset[frame.m] = "reset"
    /\ frame.entry.program # 0
    /\ frame.entry.bound # handle[frame.m]
    /\ bound = handle[frame.m]
    /\ enabled = {}

\* C12: addAttributePointer succeeds exactly when all rules hold, and fails
\* with InvalidAttributeSpec otherwise: count is 1, 2, 3, 4 or BGRA; stride
\* is not negative; BGRA needs unsigned-byte or a packed 2-10-10-10 type
\* and normalized = true; the packed 2-10-10-10 types need count 4 or BGRA;
\* the packed 10F-11F-11F type needs count 3; the type is an accepted one.
C12_PointerRules ==
    (Done(frame) /\ frame.op = "addAttributePointer")
        => LET size == frame.arg[2]
               type == frame.arg[3]
               normalized == frame.arg[4]
               stride == frame.arg[5]
               packed2101010 == {GL_INT_2_10_10_10_REV,
                                 GL_UNSIGNED_INT_2_10_10_10_REV}
               rules ==
                   /\ size \in {1, 2, 3, 4, GL_BGRA}
                   /\ stride >= 0
                   /\ size = GL_BGRA
                         => /\ type \in {GL_UNSIGNED_BYTE} \cup packed2101010
                            /\ normalized
                   /\ type \in packed2101010 => size \in {4, GL_BGRA}
                   /\ type = GL_UNSIGNED_INT_10F_11F_11F_REV => size = 3
                   /\ type \in {GL_BYTE, GL_UNSIGNED_BYTE, GL_SHORT,
                                GL_UNSIGNED_SHORT, GL_INT, GL_UNSIGNED_INT,
                                GL_HALF_FLOAT, GL_FLOAT, GL_DOUBLE, GL_FIXED,
                                GL_UNSIGNED_INT_10F_11F_11F_REV}
                               \cup packed2101010
           IN  /\ rules => frame.outcome = "ok"
               /\ ~rules => frame.outcome = "InvalidAttributeSpec"

C12_Witness ==
    /\ Finished("addAttributePointer", "InvalidAttributeSpec")
    /\ frame.arg[2] = GL_BGRA
    /\ frame.arg[3] = GL_UNSIGNED_INT_2_10_10_10_REV
    /\ frame.arg[4] = FALSE
    /\ frame.arg[5] = 0

\* C13: addAttributeIPointer with a type other than byte, unsigned byte,
\* short, unsigned short, int, unsigned int fails with InvalidAttributeSpec
\* for every count and stride; addAttributeLPointer only ever registers
\* descriptors of the double type.
C13_IntegerAndDoubleTypes ==
    /\ (/\ Done(frame)
        /\ frame.op = "addAttributeIPointer"
        /\ frame.arg[3] \notin {GL_BYTE, GL_UNSIGNED_BYTE, GL_SHORT,
                                GL_UNSIGNED_SHORT, GL_INT, GL_UNSIGNED_INT})
          => /\ frame.outcome = "InvalidAttributeSpec"
             /\ attributes[frame.m] = frame.entry.attributes
    /\ \A m \in Managers : \A i \in 1 .. Len(attributes[m]) :
          /\ attributes[m][i].family = "AttributeLPointer"
                => attributes[m][i].type = GL_DOUBLE
          /\ attributes[m][i].family = "AttributeIPointer"
                => attributes[m][i].type \in
                      {GL_BYTE, GL_UNSIGNED_BYTE, GL_SHORT, GL_UNSIGNED_SHORT,
                       GL_INT, GL_UNSIGNED_INT}

C13_Witness ==
    /\ Finished("addAttributeIPointer", "InvalidAttributeSpec")
    /\ frame.arg[2] = 3
    /\ frame.arg[3] = GL_FLOAT
    /\ frame.arg[5] = 0

\* C14: the descriptor list is the sequence of successful registrations
\* since construction or the last resetAttributes, in call order: a
\* successful registration appends one descriptor and keeps the earlier
\* ones, a failed one leaves the list alone, no other call but
\* resetAttributes touches it, and bind applies the descriptors in order.
C14_ListIsRegistrationOrder ==
    LET m == frame.m
        adds == {"addAttributePointer", "addAttributeIPointer",
                 "addAttributeLPointer"}
        family == CASE frame.op = "addAttributePointer" -> "AttributePointer"
                    [] frame.op = "addAttributeIPointer" -> "AttributeIPointer"
                    [] frame.op = "addAttributeLPointer" -> "AttributeLPointer"
    IN  /\ (Done(frame) /\ frame.op \in adds /\ frame.outcome = "ok")
              => /\ Len(attributes[m]) = Len(frame.entry.attributes) + 1
                 /\ SubSeq(attributes[m], 1, Len(frame.entry.attributes))
                       = frame.entry.attributes
                 /\ attributes[m][Len(attributes[m])] =
                       [family |-> family, name |-> frame.arg[1],
                        size |-> frame.arg[2], type |-> frame.arg[3],
                        normalized |-> frame.arg[4], stride |-> frame.arg[5]]
        /\ (Done(frame) /\ frame.op \in adds /\ frame.outcome # "ok")
              => attributes[m] = frame.entry.attributes
        /\ Finished("ctor", "ok") => attributes[m] = <<>>
        /\ Finished("resetAttributes", "ok") => attributes[m] = <<>>
        /\ frame.op \in {"bind", "unbind", "setVertexData", "vertexCount"}
              => attributes[m] = frame.entry.attributes
        /\ (Done(frame) /\ frame.op = "bind")
              => \A j \in 1 .. Len(frame.calls) \div 2 :
                    /\ frame.calls[2 * j][2] = SlotOf(program, attributes[m][j])
                    /\ frame.calls[2 * j][3] = attributes[m][j].size
                    /\ frame.calls[2 * j][4] = attributes[m][j].type

C14_Witness ==
    /\ Done(frame)
    /\ frame.op = "addAttributeLPointer"
    /\ frame.outcome = "ok"
    /\ Len(frame.entry.attributes) = 1
    /\ frame.entry.attributes[1].family = "AttributePointer"
    /\ attributes[frame.m][1].family = "AttributePointer"
    /\ attributes[frame.m][2].family = "AttributeLPointer"

\* C15: the GPU buffer named by a manager's handle holds the manager's
\* CPU-side data, after construction and after every setVertexData call,
\* whether it succeeded, was rejected as bound or ran out of memory.
C15_MirrorEqualsGpu ==
    \A m \in Managers :
        (/\ life[m] = "live"
         /\ handle[m] # 0
         /\ (frame.m = m /\ frame.op = "setVertexData") => Done(frame))
            => /\ handle[m] \in allocated
               /\ gpuData[handle[m]] = data[m]

C15_Witness ==
    /\ Finished("setVertexData", "ok")
    /\ frame.arg # frame.entry.data
    /\ data[frame.m] = frame.arg
    /\ gpuData[handle[frame.m]] = frame.arg

\* C16: between calls, when every construction so far succeeded, the
\* buffer objects the managers allocated are exactly the handles held by
\* live managers; setVertexData replaces the buffer object by a new one;
\* destroying a manager releases its handle, also while it is bound.
C16_AllocatedIsHeld ==
    LET Held == { handle[m] : m \in { x \in Managers : life[x] = "live" } }
                    \ {0}
    IN  /\ (frame.pc \in {"idle", "done"} /\ leaked = {})
              => allocated \ ForeignBuffers = Held
        /\ Finished("ctor", "ok")
              => /\ handle[frame.m] \in allocated \ frame.entry.allocated
        /\ Finished("setVertexData", "ok")
              => /\ handle[frame.m] \in allocated
                 /\ frame.entry.handle # handle[frame.m]
                       => frame.entry.handle \notin allocated
        /\ Finished("destroy", "ok")
              => /\ frame.entry.handle \notin allocated
                 /\ allocated = frame.entry.allocated \ {frame.entry.handle}

C16_Witness ==
    /\ Finished("destroy", "ok")
    /\ leaked = {}
    /\ frame.entry.handle # 0
    /\ frame.entry.bound = frame.entry.handle
    /\ frame.entry.handle \notin allocated
    /\ \E m \in Managers : life[m] = "live" /\ handle[m] \in allocated

\* C17: vertexCount returns the number of elements of the CPU-side data
\* divided by the vertices per primitive, rounded down (3 for triangles,
\* 4 for quads); that data is the one of the last successful construction
\* or re-upload; 6 elements with triangle topology give 2.
C17_VertexCount ==
    LET m == frame.m
        k == IF polyType[m] = GL_TRIANGLES THEN 3 ELSE 4
    IN  /\ Finished("vertexCount", "ok")
              => /\ polyType[m] \in {GL_TRIANGLES, GL_QUADS}
                 /\ frame.rv * k <= Len(data[m])
                 /\ Len(data[m]) < (frame.rv + 1) * k
                 /\ (Len(data[m]) = 6 /\ polyType[m] = GL_TRIANGLES)
                       => frame.rv = 2
                 /\ data[m] = frame.entry.data
        /\ Finished("ctor", "ok") => data[m] = frame.arg
        /\ Finished("setVertexData", "ok") => data[m] = frame.arg
        /\ (Done(frame) /\ frame.op = "setVertexData" /\ frame.outcome # "ok")
              => data[m] = frame.entry.data
        /\ Finished("move", "ok")
              => /\ data[m] = frame.entry.data
                 /\ polyType[m] = polyType[frame.rhs]

C17_Witness ==
    /\ Finished("vertexCount", "ok")
    /\ polyType[frame.m] = GL_TRIANGLES
    /\ Len(data[frame.m]) = 6
    /\ frame.rv = 2

\* C18: unbind never fails: in every reachable state a call of unbind
\* completes normally, with no error raised and no assertion hit.
C18_UnbindNeverFails ==
    frame.op = "unbind" => (frame.pc = "done" /\ frame.outcome = "ok")

\* C19: a bind that fails with AttributeNotFound at the k-th descriptor is
\* not rolled back: the manager's handle is the current buffer, the slots
\* of the first k-1 descriptors are enabled and configured, and the call
\* enabled nothing for the k-th or any later descriptor.
C19_FailedBindNotRolledBack ==
    Finished("bind", "AttributeNotFoundException")
        => LET m == frame.m
               k == frame.failedAt
               attrs == attributes[m]
           IN  /\ k \in 1 .. Len(attrs)
               /\ SlotOf(program, attrs[k]) = -1
               /\ bound = handle[m]
               /\ handle[m] # 0
               /\ Len(frame.calls) = 2 * (k - 1)
               /\ \A i \in 1 .. k - 1 :
                     /\ SlotOf(program, attrs[i]) >= 0
                     /\ SlotOf(program, attrs[i]) \in enabled
                     /\ frame.calls[2 * i - 1] =
                           <<"glEnableVertexAttribArray",
                             SlotOf(program, attrs[i])>>
                     /\ frame.calls[2 * i][2] = SlotOf(program, attrs[i])
                     /\ frame.calls[2 * i][3] = attrs[i].size
                     /\ frame.calls[2 * i][4] = attrs[i].type
               /\ enabled = frame.entry.enabled
                     \cup { SlotOf(program, attrs[i]) : i \in 1 .. k - 1 }

C19_Witness ==
    /\ Finished("bind", "AttributeNotFoundException")
    /\ frame.failedAt = 2
    /\ frame.entry.enabled = {}
    /\ enabled # {}
    /\ frame.entry.bound # handle[frame.m]
    /\ bound = handle[frame.m]

\* C20: move construction transfers ownership: the new manager holds the
\* source's handle, data and descriptor list, the source holds handle 0 and
\* an empty descriptor list, no two managers hold the same non-zero
\* handle, and destroying both objects in either order releases the
\* buffer object exactly once.
C20_MoveTransfersOwnership ==
    /\ Finished("move", "ok")
          => /\ frame.m # frame.rhs
             /\ handle[frame.m] = frame.entry.handle
             /\ data[frame.m] = frame.entry.data
             /\ attributes[frame.m] = frame.entry.attributes
             /\ handle[frame.rhs] = 0
             /\ attributes[frame.rhs] = <<>>
             /\ life[frame.rhs] = "live"
             /\ allocated = frame.entry.allocated
             /\ gpuData = frame.entry.gpuData
    /\ \A m1, m2 \in Managers :
          (m1 # m2 /\ handle[m1] # 0) => handle[m1] # handle[m2]
    /\ Finished("destroy", "ok")
          => /\ allocated = frame.entry.allocated \ {frame.entry.handle}
             /\ frame.entry.handle # 0
                   => frame.entry.handle \in frame.entry.allocated
             /\ \A m \in Managers :
                   (life[m] = "live" /\ handle[m] # 0)
                      => handle[m] \in allocated

C20_Witness ==
    /\ Finished("destroy", "ok")
    /\ frame.entry.handle = 0
    /\ allocated = frame.entry.allocated
    /\ \E m \in Managers :
          /\ life[m] = "live"
          /\ handle[m] \in allocated
          /\ attributes[m] # <<>>

\* C21: in the sequence bind, resetAttributes, unbind, with descriptors
\* registered before the bind and the same current program throughout,
\* unbind disables no slot: every slot the bind enabled is still enabled
\* after the unbind, and the current buffer binding is 0.
C21_UnbindAfterResetDisablesNothing ==
    (frame.op = "unbind" /\ frame.entry.lastBind.phase = "reset")
        => /\ Finished("unbind", "ok")
           /\ frame.entry.attributes = <<>>
           /\ program = frame.entry.program
           /\ frame.entry.lastBind.slots \subseteq enabled
           /\ enabled = frame.entry.enabled
           /\ bound = 0

C21_Witness ==
    /\ Finished("unbind", "ok")
    /\ frame.entry.lastBind.phase = "reset"
    /\ frame.entry.lastBind.slots = {0, 1}
    /\ frame.entry.bound = handle[frame.m]
    /\ frame.entry.bound # 0
    /\ {0, 1} \subseteq enabled
    /\ bound = 0

\* C22: addAttributeIPointer and addAttributeLPointer with component count
\* BGRA fail validation for every type and stride (they pass normalized =
\* false to the shared checks), so the component counts they accept are
\* exactly 1, 2, 3 and 4.
C22_NoBgraForIntegerAndDouble ==
    LET size == frame.arg[2]
        type == frame.arg[3]
        stride == frame.arg[5]
    IN  /\ (Done(frame) /\ frame.op \in {"addAttributeIPointer",
                                         "addAttributeLPointer"})
              => /\ size = GL_BGRA
                    => /\ frame.outcome = "InvalidAttributeSpec"
                       /\ attributes[frame.m] = frame.entry.attributes
                 /\ frame.outcome = "ok" => size \in {1, 2, 3, 4}
        /\ (/\ Done(frame)
            /\ frame.op = "addAttributeIPointer"
            /\ size \in {1, 2, 3, 4}
            /\ stride >= 0
            /\ type \in {GL_BYTE, GL_UNSIGNED_BYTE, GL_SHORT,
                         GL_UNSIGNED_SHORT, GL_INT, GL_UNSIGNED_INT})
              => frame.outcome = "ok"
        /\ (/\ Done(frame)
            /\ frame.op = "addAttributeLPointer"
            /\ size \in {1, 2, 3, 4}
            /\ stride >= 0)
              => frame.outcome = "ok"
        /\ \A m \in Managers : \A i \in 1 .. Len(attributes[m]) :
              attributes[m][i].family \in {"AttributeIPointer",
                                           "AttributeLPointer"}
                 => attributes[m][i].size \in {1, 2, 3, 4}

C22_Witness ==
    /\ Finished("addAttributeIPointer", "InvalidAttributeSpec")
    /\ frame.arg[2] = GL_BGRA
    /\ frame.arg[3] = GL_UNSIGNED_BYTE
    /\ frame.arg[5] = 0
    /\ attributes[frame.m] = <<>>

====
